---- MODULE Spec2Model ----
(***************************************************************************)
(* A model of ng-config's ConfigService (config.service.ts): the load      *)
(* orchestration over rxjs observables (forkJoin over share()d provider    *)
(* fetches), the snapshot cache, the path accessor getValue and the option *)
(* binder map / mapOptionValues.                                           *)
(*                                                                         *)
(* Strings are sequences of one-character strings, so that split,          *)
(* toLowerCase, toString and Number are computed, not assumed.  A JS value *)
(* is a tagged record [t, v]; an object's v is a function from keys to     *)
(* values.                                                                 *)
(***************************************************************************)
EXTENDS Integers, Sequences, FiniteSets, TLC

\* --------------------------------------------------------------- bounds
\* Subscriptions made to the observables load builds: one by each slow-path
\* call of load itself, one by each caller that consumes what load returned.
MaxSubs == 3
\* Longest path given to getValue in SpecGet.
MaxPathLen == 5
\* load calls made where every fetch is required to settle (SpecSettling)
MaxCycles == 2

\* ------------------------------------------------------------ JS values
Undefined == [t |-> "undefined", v |-> 0]
Null == [t |-> "null", v |-> 0]
Str(s) == [t |-> "string", v |-> s]
Num(n) == [t |-> "number", v |-> n]
\* NaN, the one non-integer number the binder can produce (Number("abc")).
NaN == [t |-> "NaN", v |-> 0]
Bool(b) == [t |-> "boolean", v |-> b]
Obj(f) == [t |-> "object", v |-> f]

\* The empty object literal {}.
EmptySection == [k \in {} |-> Null]

\* typeof x
TypeOf(x) ==
    CASE x.t = "null" -> "object"
      [] x.t = "NaN" -> "number"
      [] OTHER -> x.t

\* x == null (loose): null or undefined
IsNullish(x) == x.t \in {"null", "undefined"}

\* JS truthiness, as the && of getValue and the || of Number(..) || 0 use it
Truthy(x) ==
    CASE x.t = "undefined" -> FALSE
      [] x.t = "null" -> FALSE
      [] x.t = "boolean" -> x.v
      [] x.t = "NaN" -> FALSE
      [] x.t = "number" -> x.v # 0
      [] x.t = "string" -> x.v # <<>>
      [] OTHER -> TRUE

\* Object.prototype.hasOwnProperty.call(o, key), o a function from keys
HasOwn(o, key) == key \in DOMAIN o

\* acc[current]: a property read.  Only objects have the properties the
\* model's keys can name; a primitive gives undefined for them.
Prop(x, key) ==
    IF x.t = "object" /\ HasOwn(x.v, key) THEN x.v[key] ELSE Undefined

\* Mutant of Spread: the earlier object's properties win.
SpreadKeepFirst(a, b) ==
    [k \in DOMAIN a \cup DOMAIN b |-> IF k \in DOMAIN a THEN a[k] ELSE b[k]]

\* { ...a, ...b }
Spread(a, b) ==
    [k \in DOMAIN a \cup DOMAIN b |-> IF k \in DOMAIN b THEN b[k] ELSE a[k]]

\* ------------------------------------------------------ the path accessor
Separators == {".", ":"}

\* key.split(/\.|:/): the segments between separators, empty ones kept
RECURSIVE SplitFrom(_, _, _, _)
SplitFrom(s, i, cur, acc) ==
    IF i > Len(s) THEN Append(acc, cur)
    ELSE IF s[i] \in Separators
         THEN SplitFrom(s, i + 1, <<>>, Append(acc, cur))
         ELSE SplitFrom(s, i + 1, Append(cur, s[i]), acc)

Split(s) == SplitFrom(s, 1, <<>>, <<>>)

\* (acc, current) => acc && acc[current]
ReduceStep(acc, current) == IF Truthy(acc) THEN Prop(acc, current) ELSE acc

\* keyArray.reduce(ReduceStep, config)
RECURSIVE Reduce(_, _, _)
Reduce(keyArray, i, acc) ==
    IF i > Len(keyArray) THEN acc
    ELSE Reduce(keyArray, i + 1, ReduceStep(acc, keyArray[i]))

\* getValue(key) read against the snapshot config
getValue(config, key) ==
    LET result == Reduce(Split(key), 1, Obj(config))
    IN  IF result = Undefined THEN Null ELSE result

\* ---------------------------------------------------------- the providers
\* Mutant of Reverse: the providers kept in registration order.
ReverseNot(s) == s

\* configProviders.reverse()
Reverse(s) == [i \in 1..Len(s) |-> s[Len(s) + 1 - i]]

kApp == <<"a", "p", "p">>
kX == <<"x">>
kY == <<"y">>
kZ == <<"z">>
kK == <<"k">>
kM == <<"m">>
kN == <<"n">>
sV1 == <<"v", "1">>
sV2 == <<"v", "2">>
sV3 == <<"v", "3">>

\* What a fetch of each provider can deliver.  P1's data changes between
\* fetches, in a value and in the fields its section has; every provider
\* owns a key, and neighbours collide on a key.
SectionsOf(p) ==
    CASE p = "P1" -> { (kApp :> Obj(kX :> Str(sV1))) @@ (kK :> Num(1)),
                       (kApp :> Obj((kX :> Str(sV2)) @@ (kZ :> Str(sV2))))
                           @@ (kK :> Num(1)) }
      [] p = "P2" -> { (kK :> Num(2)) @@ (kM :> Num(2)) }
      [] OTHER    -> { (kApp :> Obj((kX :> Str(sV3)) @@ (kY :> Str(sV3))))
                        @@ (kM :> Num(3)) @@ (kN :> Num(3)) }

\* configs.forEach(config => mergedConfig = { ...mergedConfig, ...config })
RECURSIVE MergeFrom(_, _, _)
MergeFrom(configs, i, mergedConfig) ==
    IF i > Len(configs) THEN mergedConfig
    ELSE MergeFrom(configs, i + 1, Spread(mergedConfig, configs[i]))

MergeConfigs(configs) == MergeFrom(configs, 1, EmptySection)

\* ------------------------------------------------------ the option binder
UpperCase == << "A", "B", "C", "D", "E", "F", "G", "H", "I", "J", "K", "L", "M",
                "N", "O", "P", "Q", "R", "S", "T", "U", "V", "W", "X", "Y", "Z" >>
LowerCase == << "a", "b", "c", "d", "e", "f", "g", "h", "i", "j", "k", "l", "m",
                "n", "o", "p", "q", "r", "s", "t", "u", "v", "w", "x", "y", "z" >>
Digits == << "0", "1", "2", "3", "4", "5", "6", "7", "8", "9" >>

LowerChar(c) ==
    IF \E i \in 1..Len(UpperCase) : UpperCase[i] = c
    THEN LowerCase[CHOOSE i \in 1..Len(UpperCase) : UpperCase[i] = c]
    ELSE c

\* s.toLowerCase()
ToLowerCase(s) == [i \in 1..Len(s) |-> LowerChar(s[i])]

IsDigit(c) == \E i \in 1..Len(Digits) : Digits[i] = c
DigitValue(c) == (CHOOSE i \in 1..Len(Digits) : Digits[i] = c) - 1

\* (n).toString() of a non-negative integer
RECURSIVE NatToString(_)
NatToString(n) ==
    IF n < 10 THEN << Digits[n + 1] >>
    ELSE Append(NatToString(n \div 10), Digits[(n % 10) + 1])

\* (n).toString() of an integer
NumberToString(n) == IF n < 0 THEN << "-" >> \o NatToString(0 - n) ELSE NatToString(n)

\* (b).toString()
BooleanToString(b) ==
    IF b THEN << "t", "r", "u", "e" >> ELSE << "f", "a", "l", "s", "e" >>

RECURSIVE DigitsValue(_, _, _)
DigitsValue(s, i, acc) ==
    IF i > Len(s) THEN acc ELSE DigitsValue(s, i + 1, 10 * acc + DigitValue(s[i]))

AllDigits(s) == s # <<>> /\ \A i \in 1..Len(s) : IsDigit(s[i])

\* Number(s) of a string without white space: the empty string is 0, an
\* optionally signed run of digits is its value, anything else is NaN
StringToNumber(s) ==
    IF s = <<>> THEN Num(0)
    ELSE IF AllDigits(s) THEN Num(DigitsValue(s, 1, 0))
    ELSE IF s[1] = "-" /\ AllDigits(Tail(s)) THEN Num(0 - DigitsValue(Tail(s), 1, 0))
    ELSE IF s[1] = "+" /\ AllDigits(Tail(s)) THEN Num(DigitsValue(Tail(s), 1, 0))
    ELSE NaN

\* Number(x) of a non-null value; a plain object is NaN
ToNumber(x) ==
    CASE x.t = "string" -> StringToNumber(x.v)
      [] x.t = "boolean" -> IF x.v THEN Num(1) ELSE Num(0)
      [] x.t = "number" -> x
      [] OTHER -> NaN

\* JSON.stringify(x) of a value holding no NaN; keys in an order of the
\* model's choosing (the model's objects do not keep insertion order)
RECURSIVE JsonStringify(_)
RECURSIVE JsonMembers(_, _)
JsonMembers(o, keys) ==
    IF keys = {} THEN <<>>
    ELSE LET k == CHOOSE q \in keys : TRUE
             member == << "\"" >> \o k \o << "\"", ":" >> \o JsonStringify(o[k])
         IN  IF keys = {k} THEN member
             ELSE member \o << "," >> \o JsonMembers(o, keys \ {k})
JsonStringify(x) ==
    CASE x.t = "string" -> << "\"" >> \o x.v \o << "\"" >>
      [] x.t = "number" -> NumberToString(x.v)
      [] x.t = "boolean" -> BooleanToString(x.v)
      [] x.t = "object" -> << "{" >> \o JsonMembers(x.v, DOMAIN x.v) \o << "}" >>
      [] OTHER -> << "n", "u", "l", "l" >>

\* optionsValue === configValue: by value for primitives (NaN equals
\* nothing); an options object and a section object are never one reference
StrictEquals(a, b) == a.t \notin {"object", "NaN"} /\ a = b

\* ['1', 'true', 'on'].indexOf(configValue.toLowerCase()) > -1
TruthyStrings == { << "1" >>, << "t", "r", "u", "e" >>, << "o", "n" >> }

\* Number(configValue) || 0
NumberOrZero(configValue) ==
    LET n == ToNumber(configValue) IN IF Truthy(n) THEN n ELSE Num(0)

\* Mutant of MapOptionValue: the section's value is taken without coercion.
MapOptionValueAsIs(optionsValue, configValue) ==
    IF IsNullish(configValue) THEN Null ELSE configValue

\* mapOptionValues(options, configSection), and what its loop body leaves
\* in options[key]
RECURSIVE mapOptionValues(_, _)
RECURSIVE MapOptionValue(_, _)
MapOptionValue(optionsValue, configValue) ==
    IF StrictEquals(optionsValue, configValue) THEN optionsValue
    ELSE IF IsNullish(configValue) THEN Null
    ELSE IF IsNullish(optionsValue) THEN configValue
    ELSE IF TypeOf(optionsValue) = "string" THEN
        CASE TypeOf(configValue) = "string" -> configValue
          [] configValue.t = "number" -> Str(NumberToString(configValue.v))
          [] configValue.t = "NaN" -> Str(<< "N", "a", "N" >>)
          [] TypeOf(configValue) = "boolean" -> Str(BooleanToString(configValue.v))
          [] OTHER -> Str(JsonStringify(configValue))
    ELSE IF TypeOf(optionsValue) = "boolean" THEN
        CASE TypeOf(configValue) = "string" ->
                 Bool(ToLowerCase(configValue.v) \in TruthyStrings)
          [] TypeOf(configValue) = "boolean" -> configValue
          [] TypeOf(configValue) = "number" -> Bool(configValue = Num(1))
          [] OTHER -> Bool(FALSE)
    ELSE IF TypeOf(optionsValue) = "number" THEN NumberOrZero(configValue)
    ELSE IF TypeOf(optionsValue) = "object" /\ TypeOf(configValue) = "object"
         THEN Obj(mapOptionValues(optionsValue.v, configValue.v))
    ELSE optionsValue

\* Mutant of mapOptionValues: the section's fields are assigned onto the
\* object, those the object does not have included.
mapOptionValuesAssign(options, configSection) ==
    [key \in DOMAIN options \cup DOMAIN configSection |->
        IF ~HasOwn(configSection, key) THEN options[key]
        ELSE IF ~HasOwn(options, key) THEN configSection[key]
        ELSE MapOptionValue(options[key], configSection[key])]

\* for (const key of Object.keys(options)) ...: the options object afterwards
mapOptionValues(options, configSection) ==
    [key \in DOMAIN options |->
        IF ~HasOwn(configSection, key) THEN options[key]
        ELSE MapOptionValue(options[key], configSection[key])]

OptionsSuffix == << "O", "p", "t", "i", "o", "n", "s" >>

EndsWith(s, suffix) ==
    Len(s) >= Len(suffix) /\ SubSeq(s, Len(s) - Len(suffix) + 1, Len(s)) = suffix

\* getNormalizedKey(className), className not empty
getNormalizedKey(className) ==
    LET stripped ==
            IF Len(className) > Len(OptionsSuffix) /\ EndsWith(className, OptionsSuffix)
            THEN SubSeq(className, 1, Len(className) - Len(OptionsSuffix))
            ELSE className
    IN  << LowerChar(stripped[1]) >> \o Tail(stripped)

\* ------------------------------------------------- the option classes
cAppOptions == << "A", "p", "p", "O", "p", "t", "i", "o", "n", "s" >>
cApp == << "A", "p", "p" >>
cKOptions == << "K", "O", "p", "t", "i", "o", "n", "s" >>
sD == << "d" >>

\* The classes callers bind; AppOptions is provided by the injector (one
\* shared instance), the others are not (map gets new optionsClass()).
OptionClasses == { cAppOptions, cApp, cKOptions }
InjectedClasses == { cAppOptions }

\* new optionsClass(): the class's default field values
NewOptions(optionsClass) == (kX :> Str(sD)) @@ (kZ :> Str(sD))

\* --------------------------------------------------------------- state
VARIABLES
    registered,     \* history: the providers as registered (the constructor's argument)
    sortedConfigProviders, \* this.sortedConfigProviders
    loading,        \* this.loading
    completed,      \* this.completed
    cachedConfig,   \* this.cachedConfig
    optionsRecord,  \* this.optionsRecord: normalized key -> the bound object
    fetchRequests,  \* this.fetchRequests: provider name -> pipeline id, 0 = none
    events,         \* what loadSubject has emitted since, and with, its latest 'loading'
    connected,      \* <<id, name>>: pipeline id of the provider has a live
                    \* subscription to the provider's observable (a fetch in flight)
    subs,           \* the live subscriptions to the forkJoin observables, in order
    nCallerSubs,    \* history: subscriptions callers have made
    returned,       \* the observables load has returned, each its pipeline ids
    injectedObjs,   \* the injector's option instances: class -> fields
    invoked,        \* history: calls of configProvider.load() per provider
    nLoads,         \* history: slow-path calls of load
    forced,         \* history: load(true) was called
    resolved,       \* history: some provider fetch has delivered or failed
    outcomes,       \* history: what the subscriptions the last step finished
    observing,      \* a component has subscribed to loadEvent
    views,          \* what that subscriber read of the service at each status
                    \* event the last step emitted
                    \* received, in the order they received it
    last,           \* history: the call a component made in the last step
    ret,            \* history: what that call returned at once
    path            \* the path of the getValue call (SpecGet)

vars == << registered, sortedConfigProviders, loading, completed, cachedConfig, optionsRecord, fetchRequests, events,
           connected, subs, nCallerSubs, returned, injectedObjs, invoked,
           nLoads, forced, resolved, outcomes, observing, views, last, ret, path >>

\* get providers()
providers == sortedConfigProviders

ProviderNames == {registered[i] : i \in 1..Len(registered)}

\* forkJoin's result array: one section per provider, in this.providers order
ForkJoinResult(vals) == [i \in 1..Len(providers) |-> vals[providers[i]]]

\* The last call a component made of load ("load", or "reload" for
\* load(true)), map or getValue, with the class bound (map).  A step that is
\* no call of theirs resets it to NoCall.
Call(op, cls) == [op |-> op, cls |-> cls]
NoCall == Call("none", <<>>)

NoOptions == [k \in {} |-> [cls |-> <<>>, shared |-> FALSE, snap |-> EmptySection]]

\* The service over the registered providers, idle, holding snapshot config.
ServiceHolding(configProviders, config, isCompleted, instances) ==
    /\ registered = configProviders
    /\ sortedConfigProviders = Reverse(configProviders)
    /\ loading = FALSE
    /\ completed = isCompleted
    /\ cachedConfig = config
    /\ optionsRecord = NoOptions
    /\ fetchRequests = [p \in ProviderNames |-> 0]
    /\ events = <<>>
    /\ connected = {}
    /\ subs = <<>>
    /\ nCallerSubs = 0
    /\ returned = {}
    /\ injectedObjs = instances
    /\ invoked = [p \in ProviderNames |-> 0]
    /\ nLoads = 0
    /\ forced = FALSE
    /\ resolved = FALSE
    /\ outcomes = <<>>
    /\ views = <<>>
    /\ last = NoCall
    /\ ret = Undefined

\* The same, the injector holding the option instances as constructed.
ServiceWith(configProviders, config, isCompleted) ==
    ServiceHolding(configProviders, config, isCompleted,
                   [c \in InjectedClasses |-> NewOptions(c)])

\* The service as constructed: nothing loaded, the snapshot empty.
constructor(configProviders) == ServiceWith(configProviders, EmptySection, FALSE)

Init == constructor(<< "P1", "P2" >>) /\ path = <<>> /\ observing = FALSE

InitMerge == constructor(<< "P1", "P2", "P3" >>) /\ path = <<>> /\ observing = FALSE

\* The part of the service a settling fetch writes, threaded through the
\* synchronous cascade of subscriber callbacks.
Service ==
    [cachedConfig |-> cachedConfig, optionsRecord |-> optionsRecord,
     completed |-> completed, loading |-> loading, events |-> events,
     views |-> <<>>]

\* What a subscriber of loadEvent, called inside loadSubject.next(), reads
\* of the service svc as the statements before the emission left it, and
\* the calls and fetches of providers made so far.
View(status, svc) ==
    [status |-> status, cachedConfig |-> svc.cachedConfig,
     optionsRecord |-> svc.optionsRecord, completed |-> svc.completed,
     loading |-> svc.loading, invoked |-> invoked, connected |-> connected]

\* this.loadSubject.next({ status }): the subscriber of loadEvent, if there
\* is one, is called with the service as svc.
Notify(seen, status, svc) ==
    IF observing THEN Append(seen, View(status, svc)) ELSE seen

\* ---------------------------------------------------------- subscriptions
\* A subscription to forkJoin(pipelines).pipe(map, tap): the pipeline it
\* reads for each provider, the values received so far, its state.
NewSubscription(pipes, kind) ==
    [pipes |-> pipes, kind |-> kind, got |-> {},
     vals |-> [p \in ProviderNames |-> EmptySection], early |-> ~resolved]

\* obs$.subscribe(...): forkJoin subscribes to every pipeline.  share(): a
\* pipeline with a live connection is joined; one without (never connected,
\* or reset when its fetch settled) subscribes to the provider's observable
Subscribe(pipes, kind) ==
    /\ subs' = Append(subs, NewSubscription(pipes, kind))
    /\ connected' = connected \cup {<< pipes[p], p >> : p \in ProviderNames}

\* ------------------------------------------------------------------ load
\* Mutant of AlreadyLoaded: no fast path.
AlreadyLoadedNever(reload) == FALSE

\* if (this.completed && !reload) return of(this.cachedConfig)
AlreadyLoaded(reload) == completed /\ ~reload

\* Mutant of CreatesFetch: reload is ignored, the cached pipeline is reused.
CreatesFetchOnce(reload, p) == fetchRequests[p] = 0

\* Mutant of CreatesFetch: the cached pipeline is never reused.
CreatesFetchAlways(reload, p) == TRUE

\* if (reload || !this.fetchRequests[loaderName]): a new pipeline is made
CreatesFetch(reload, p) == reload \/ fetchRequests[p] = 0

\* Mutant of FetchRequestsAfter: a new pipeline is not put in the cache.
FetchRequestsKept(reload) == fetchRequests

\* this.fetchRequests[loaderName] = obs$, for the pipelines the call makes
FetchRequestsAfter(reload) ==
    [p \in ProviderNames |->
        IF CreatesFetch(reload, p) THEN nLoads + 1 ELSE fetchRequests[p]]

\* if (!this.loading)
StartsLoading == ~loading

loadInternal(reload) ==
    IF AlreadyLoaded(reload)
    THEN /\ ret' = Obj(cachedConfig)
         /\ last' = Call(IF reload THEN "reload" ELSE "load", <<>>)
         /\ outcomes' = <<>>
         /\ views' = <<>>
         /\ UNCHANGED << observing, registered, sortedConfigProviders, loading, completed,
                         cachedConfig, optionsRecord, fetchRequests,
                         events, connected, subs, nCallerSubs, returned,
                         injectedObjs, invoked, nLoads, forced, resolved, path >>
    ELSE /\ nLoads + nCallerSubs < MaxSubs
         /\ nLoads' = nLoads + 1
         /\ forced' = (forced \/ reload)
         /\ IF StartsLoading
            THEN /\ loading' = TRUE
                 /\ completed' = FALSE
                 /\ events' = << "loading" >>
                 /\ views' = Notify(<<>>, "loading",
                                    [Service EXCEPT !.loading = TRUE,
                                                    !.completed = FALSE])
            ELSE /\ UNCHANGED << loading, completed, events >>
                 /\ views' = <<>>
         /\ LET pipes == [p \in ProviderNames |->
                             IF CreatesFetch(reload, p) THEN nLoads + 1
                             ELSE fetchRequests[p]]
            IN  /\ fetchRequests' = FetchRequestsAfter(reload)
                /\ invoked' = [p \in ProviderNames |->
                                  invoked[p] + (IF CreatesFetch(reload, p) THEN 1 ELSE 0)]
                /\ Subscribe(pipes, "internal")
                /\ returned' = returned \cup {pipes}
         /\ last' = Call(IF reload THEN "reload" ELSE "load", <<>>)
         /\ outcomes' = <<>>
         /\ ret' = Undefined
         /\ UNCHANGED << observing, registered, sortedConfigProviders, cachedConfig, optionsRecord,
                         nCallerSubs, injectedObjs, resolved, path >>

\* load(reLoad = false)
load == \E reLoad \in BOOLEAN : loadInternal(reLoad)

\* A caller subscribes to an observable load returned on its slow path.
CallerSubscribe ==
    \E pipes \in returned :
        /\ nLoads + nCallerSubs < MaxSubs
        /\ nCallerSubs' = nCallerSubs + 1
        /\ Subscribe(pipes, "caller")
        /\ last' = NoCall
        /\ outcomes' = <<>>
        /\ views' = <<>>
        /\ ret' = Undefined
        /\ UNCHANGED << observing, registered, sortedConfigProviders, loading, completed,
                        cachedConfig, optionsRecord, fetchRequests, events, returned,
                        injectedObjs, invoked, nLoads, forced, resolved, path >>

\* ----------------------------------------------------- fetches settling
\* sub is an observer of provider p's pipeline id
Observes(sub, id, p) == sub.pipes[p] = id /\ p \notin sub.got

\* forkJoin keeps the value a source emits
OnValue(sub, p, section) == [sub EXCEPT !.got = @ \cup {p}, !.vals[p] = section]

\* Mutant of ForkJoinReady: forkJoin emits on the first value it receives.
ForkJoinReadyAny(sub) == sub.got # {}

\* forkJoin emits once every source has completed with a value
ForkJoinReady(sub) == sub.got = ProviderNames

\* map(configs => merged)
MergedConfig(sub) == MergeConfigs(ForkJoinResult(sub.vals))

\* Mutant of Tap: the merge replaces the snapshot and keeps the bound options.
TapNoClear(config, svc) == [svc EXCEPT !.cachedConfig = config]

\* tap(config => { this.cachedConfig = config; this.optionsRecord.clear() })
Tap(config, svc) == [svc EXCEPT !.cachedConfig = config, !.optionsRecord = NoOptions]

\* Mutant of OnLoaded: 'loaded' is emitted first, the flags are set after.
OnLoadedEmitsFirst(sub, svc) ==
    IF sub.kind = "internal"
    THEN [svc EXCEPT !.completed = TRUE, !.loading = FALSE,
                     !.events = Append(@, "loaded"),
                     !.views = Notify(@, "loaded", svc)]
    ELSE svc

\* Mutant of OnLoaded: the next callback leaves the loading flag as it is.
OnLoadedKeepsLoading(sub, svc) ==
    IF sub.kind = "internal"
    THEN LET set == [svc EXCEPT !.completed = TRUE]
         IN  [set EXCEPT !.events = Append(@, "loaded"),
                         !.views = Notify(@, "loaded", set)]
    ELSE svc

\* the next callback of loadInternal's own subscription
OnLoaded(sub, svc) ==
    IF sub.kind = "internal"
    THEN LET set == [svc EXCEPT !.completed = TRUE, !.loading = FALSE]
         IN  [set EXCEPT !.events = Append(@, "loaded"),
                         !.views = Notify(@, "loaded", set)]
    ELSE svc

\* Mutant of OnFailed: the error callback leaves the loading flag as it is.
OnFailedKeepsLoading(sub, svc) ==
    IF sub.kind = "internal"
    THEN [svc EXCEPT !.completed = FALSE]
    ELSE svc

\* Mutant of OnFailed: a failed load also drops what was loaded before.
OnFailedResets(sub, svc) ==
    IF sub.kind = "internal"
    THEN [svc EXCEPT !.completed = FALSE, !.loading = FALSE,
                     !.cachedConfig = EmptySection, !.optionsRecord = NoOptions]
    ELSE svc

\* the error callback of loadInternal's own subscription
OnFailed(sub, svc) ==
    IF sub.kind = "internal"
    THEN [svc EXCEPT !.completed = FALSE, !.loading = FALSE]
    ELSE svc

\* The pipeline's subject completes its observers in subscription order;
\* each forkJoin that is now ready emits through map and tap to its subscriber.
RECURSIVE CompleteFrom(_, _, _, _, _)
CompleteFrom(withValue, i, id, p, svc) ==
    IF i > Len(withValue) THEN svc
    ELSE IF Observes(subs[i], id, p) /\ ForkJoinReady(withValue[i])
         THEN CompleteFrom(withValue, i + 1, id, p,
                           OnLoaded(withValue[i], Tap(MergedConfig(withValue[i]), svc)))
         ELSE CompleteFrom(withValue, i + 1, id, p, svc)

\* The pipeline's subject errors its observers in subscription order.
RECURSIVE ErrorFrom(_, _, _, _)
ErrorFrom(i, id, p, svc) ==
    IF i > Len(subs) THEN svc
    ELSE IF Observes(subs[i], id, p)
         THEN ErrorFrom(i + 1, id, p, OnFailed(subs[i], svc))
         ELSE ErrorFrom(i + 1, id, p, svc)

SetService(svc) ==
    /\ cachedConfig' = svc.cachedConfig
    /\ optionsRecord' = svc.optionsRecord
    /\ completed' = svc.completed
    /\ loading' = svc.loading
    /\ events' = svc.events
    /\ views' = svc.views

\* What a finished subscription's subscriber received, and the sections
\* the subscription had collected.
Outcome(sub, st, result) ==
    [kind |-> sub.kind, early |-> sub.early, st |-> st, result |-> result,
     got |-> sub.got, vals |-> sub.vals]

\* The subscriptions of ss at the indices in keep, in order.
RECURSIVE Keep(_, _, _)
Keep(ss, i, keep) ==
    IF i > Len(ss) THEN <<>>
    ELSE IF i \in keep THEN << ss[i] >> \o Keep(ss, i + 1, keep)
         ELSE Keep(ss, i + 1, keep)

\* The fetch behind pipeline id of provider p delivers a section: take(1)
\* passes it on and completes, the pipeline resets.
Deliver(id, p, section) ==
    /\ << id, p >> \in connected
    /\ LET withValue == [i \in DOMAIN subs |->
                            IF Observes(subs[i], id, p)
                            THEN OnValue(subs[i], p, section) ELSE subs[i]]
           done == {i \in DOMAIN subs :
                       Observes(subs[i], id, p) /\ ForkJoinReady(withValue[i])}
           finished == Keep(withValue, 1, done)
       IN  /\ subs' = Keep(withValue, 1, DOMAIN subs \ done)
           /\ outcomes' = [j \in DOMAIN finished |->
                               Outcome(finished[j], "done", MergedConfig(finished[j]))]
           /\ SetService(CompleteFrom(withValue, 1, id, p, Service))
    /\ connected' = connected \ {<< id, p >>}
    /\ resolved' = TRUE
    /\ last' = NoCall
    /\ ret' = Undefined
    /\ UNCHANGED << observing, registered, sortedConfigProviders, fetchRequests, nCallerSubs,
                    returned, injectedObjs, invoked, nLoads, forced, path >>

\* The fetch behind pipeline id of provider p fails: every observing
\* forkJoin errors and unsubscribes from its other pipelines, and a pipeline
\* left without observers unsubscribes from its source.
Fail(id, p) ==
    /\ << id, p >> \in connected
    /\ LET failed == {i \in DOMAIN subs : Observes(subs[i], id, p)}
           left == Keep(subs, 1, DOMAIN subs \ failed)
           ended == Keep(subs, 1, failed)
       IN  /\ subs' = left
           /\ outcomes' = [j \in DOMAIN ended |->
                               Outcome(ended[j], "error", EmptySection)]
           /\ connected' = {c \in connected \ {<< id, p >>} :
                               \E i \in DOMAIN left : Observes(left[i], c[1], c[2])}
    /\ SetService(ErrorFrom(1, id, p, Service))
    /\ resolved' = TRUE
    /\ last' = NoCall
    /\ ret' = Undefined
    /\ UNCHANGED << observing, registered, sortedConfigProviders, fetchRequests, nCallerSubs,
                    returned, injectedObjs, invoked, nLoads, forced, path >>

ProviderDelivers ==
    \E c \in connected : \E section \in SectionsOf(c[2]) : Deliver(c[1], c[2], section)

ProviderFails == \E c \in connected : Fail(c[1], c[2])

\* ------------------------------------------------------------------- map
\* this.injector.get(optionsClass, new optionsClass())
InjectorGet(optionsClass) ==
    IF optionsClass \in InjectedClasses THEN injectedObjs[optionsClass]
    ELSE NewOptions(optionsClass)

\* Mutant of SameInstance: any cached object counts as the supplied one.
SameInstanceAny(cachedOptions, optionsClass) == TRUE

\* cachedOptions === optionsObj: only the injector's instance of the class
\* is ever the same reference twice
SameInstance(cachedOptions, optionsClass) ==
    cachedOptions.shared /\ optionsClass \in InjectedClasses
        /\ cachedOptions.cls = optionsClass

Without(record, key) == [k \in DOMAIN record \ {key} |-> record[k]]

\* Mutant of NoSection: whatever getValue found is bound.
NoSectionNever(configSection) == FALSE

\* if (configSection == null || typeof configSection !== 'object')
NoSection(configSection) ==
    IsNullish(configSection) \/ TypeOf(configSection) # "object"

\* The own enumerable properties hasOwnProperty can find in what is bound:
\* a section's fields (a primitive has none of the names options use).
OwnFields(configSection) ==
    IF configSection.t = "object" THEN configSection.v ELSE EmptySection

map(optionsClass) ==
    LET optionsObj == InjectorGet(optionsClass)
        normalizedKey == getNormalizedKey(optionsClass)
        hit == normalizedKey \in DOMAIN optionsRecord
                   /\ SameInstance(optionsRecord[normalizedKey], optionsClass)
        evicted == Without(optionsRecord, normalizedKey)
        configSection == getValue(cachedConfig, normalizedKey)
        bound == mapOptionValues(optionsObj, OwnFields(configSection))
    IN  /\ last' = Call("map", optionsClass)
        /\ outcomes' = <<>>
        /\ views' = <<>>
        /\ IF hit
           THEN /\ ret' = Obj(optionsObj)
                /\ UNCHANGED << optionsRecord, injectedObjs >>
           ELSE IF NoSection(configSection)
           THEN /\ ret' = Obj(optionsObj)
                /\ optionsRecord' = evicted
                /\ UNCHANGED injectedObjs
           ELSE /\ ret' = Obj(bound)
                /\ optionsRecord' =
                       (normalizedKey :>
                            [cls |-> optionsClass,
                             shared |-> optionsClass \in InjectedClasses,
                             snap |-> cachedConfig]) @@ evicted
                /\ injectedObjs' =
                       [c \in InjectedClasses |->
                           IF c = optionsClass THEN bound ELSE injectedObjs[c]]
        /\ UNCHANGED << observing, registered, sortedConfigProviders, loading, completed,
                        cachedConfig, fetchRequests, events, connected, subs,
                        nCallerSubs, returned, invoked, nLoads, forced, resolved, path >>

\* A component binds the options class the injector provides.
Bind == map(cAppOptions)

\* A component binds any of the application's option classes.
BindAny == \E optionsClass \in OptionClasses : map(optionsClass)

\* -------------------------------------------------------------- getValue
PathAlphabet == { "a", "b", "c", "x", ".", ":" }
Paths == UNION { [1..n -> PathAlphabet] : n \in 0..MaxPathLen }

kA == << "a" >>
kB == << "b" >>
kC == << "c" >>

\* Snapshots a load can have committed: nested sections, and scalars of
\* every kind where a path may try to go on.
GetSnapshots ==
    { (kA :> Obj(kB :> Obj(kC :> Num(5)))),
      (kA :> Num(0)) @@ (kB :> Bool(FALSE)) @@ (kC :> Str(<<>>)) @@ (kX :> Null),
      (kA :> Obj((kB :> Num(7)) @@ (kC :> Null))) @@ (kB :> Str(sV1))
          @@ (kC :> Bool(TRUE)) }

\* The service after a load that committed one of the snapshots, and the
\* path a component is about to ask for.
InitGet ==
    /\ path \in Paths
    /\ observing = FALSE
    /\ \E snapshot \in GetSnapshots : ServiceWith(<< "P1", "P2" >>, snapshot, TRUE)

\* getValue(path), called once
GetValueCall ==
    /\ last = NoCall
    /\ ret' = getValue(cachedConfig, path)
    /\ last' = Call("getValue", <<>>)
    /\ UNCHANGED << observing, registered, sortedConfigProviders, loading, completed,
                    cachedConfig, optionsRecord, fetchRequests, events, connected,
                    subs, nCallerSubs, returned, injectedObjs, invoked, nLoads,
                    forced, resolved, outcomes, views, path >>

\* ------------------------------------------------------ binding, typed
kO == << "o" >>
kW == << "w" >>
sOne == << "1" >>
sOn == << "O", "n" >>
sTRUE == << "T", "R", "U", "E" >>
sAbc == << "a", "b", "c" >>
sTwelve == << "1", "2" >>

\* What the field x of the injector's AppOptions instance can hold when a
\* component binds it: a default of every type the binder tells apart.
DefaultValues ==
    { Null, Undefined, Str(sOne), Str(sD), Bool(TRUE), Bool(FALSE), Num(0), Num(5),
      Obj((kY :> Bool(FALSE)) @@ (kW :> Num(2))) }

\* The injector's AppOptions instances: x of any type, z a string.
DefaultInstances == { (kX :> d) @@ (kZ :> Str(sD)) : d \in DefaultValues }

\* What a section can hold at x.
SectionValues ==
    { Null, Str(sOne), Str(sOn), Str(sTRUE), Str(sAbc), Str(<<>>), Str(sTwelve),
      Num(0), Num(1), Num(12), Bool(TRUE), Bool(FALSE),
      Obj((kY :> Str(sOn)) @@ (kN :> Num(3))), Obj(kW :> Null) }

\* Snapshots a load can have committed: an app section with x and a field
\* no options class has, an app section without x, no app section, and an
\* app entry that is not a section.
BindSnapshots ==
    { (kApp :> Obj((kX :> v) @@ (kN :> Num(9)))) @@ (kK :> Num(1)) : v \in SectionValues }
        \cup { (kApp :> Obj(kN :> Num(9))) @@ (kK :> Num(1)),
               (kK :> Num(0)),
               (kApp :> Null) @@ (kK :> Str(<<>>)),
               (kApp :> Str(sAbc)) @@ (kK :> Bool(FALSE)) }

\* The service after a load that committed one of the snapshots, the
\* injector holding one of the instances.
InitBind ==
    /\ path = <<>>
    /\ observing = FALSE
    /\ \E snapshot \in BindSnapshots : \E instance \in DefaultInstances :
           ServiceHolding(<< "P1", "P2" >>, snapshot, TRUE,
                          [c \in InjectedClasses |-> instance])

\* The service as constructed, a component listening on loadEvent.
InitEvents == constructor(<< "P1", "P2" >>) /\ path = <<>> /\ observing = TRUE

\* --------------------------------------------------------- specifications
\* Two registered providers; components load, consume what load returned
\* and bind the injected options class while fetches deliver and fail.
Next == load \/ CallerSubscribe \/ ProviderDelivers \/ ProviderFails \/ Bind

Spec == Init /\ [][Next]_vars

\* Three registered providers and components that call load(), never
\* load(true): the load cycles alone.
NextMerge == loadInternal(FALSE) \/ ProviderDelivers \/ ProviderFails

SpecMerge == InitMerge /\ [][NextMerge]_vars

\* One getValue call against a committed snapshot.
NextGet == GetValueCall

SpecGet == InitGet /\ [][NextGet]_vars

\* Two registered providers and a subscriber of loadEvent; components
\* load and bind while fetches deliver and fail.
NextEvents == load \/ ProviderDelivers \/ ProviderFails \/ Bind

SpecEvents == InitEvents /\ [][NextEvents]_vars

\* Components bind the application's option classes against a committed
\* snapshot.
NextBind == BindAny

SpecBind == InitBind /\ [][NextBind]_vars

\* The fetch behind pipeline id of provider p settles: the provider's
\* observable delivers a section or fails.
Settles(id, p) == (\E section \in SectionsOf(p) : Deliver(id, p, section)) \/ Fail(id, p)

\* Components call load, plainly or forced, MaxCycles times in all.
LoadCall == nLoads < MaxCycles /\ load

\* Two registered providers; components load and reload while fetches
\* deliver and fail, and every fetch that is issued settles in the end.
NextSettling == LoadCall \/ ProviderDelivers \/ ProviderFails

EveryFetchSettles ==
    \A id \in 1..MaxCycles : \A p \in {"P1", "P2"} : WF_vars(Settles(id, p))

SpecSettling == Init /\ [][NextSettling]_vars /\ EveryFetchSettles

\* ------------------------------------------------------------ the claims
\* The providers, among those of a forkJoin result vals, that supply key k.
Suppliers(vals, k) == {p \in ProviderNames : k \in DOMAIN vals[p]}

KeysOf(vals) == UNION {DOMAIN vals[p] : p \in ProviderNames}

\* The position of provider p in the registration order.
RegisteredAt(p) == CHOOSE i \in 1..Len(registered) : registered[i] = p

\* The earliest and the latest registered provider that supplies key k.
FirstWith(vals, k) ==
    CHOOSE p \in Suppliers(vals, k) :
        \A q \in Suppliers(vals, k) : RegisteredAt(p) <= RegisteredAt(q)
LastWith(vals, k) ==
    CHOOSE p \in Suppliers(vals, k) :
        \A q \in Suppliers(vals, k) : RegisteredAt(p) >= RegisteredAt(q)

\* config is the shallow merge of the sections vals in which, for every
\* key, the earliest registered supplier's whole value stands.
FirstRegisteredMerge(config, vals) ==
    /\ DOMAIN config = KeysOf(vals)
    /\ \A k \in KeysOf(vals) : config[k] = vals[FirstWith(vals, k)][k]

Done(j) == outcomes[j].st = "done"

\* C1: with providers registered [P1, P2, P3], what a load cycle commits is
\* the shallow merge of the three sections in which every key holds the whole
\* value of the earliest registered provider that has it (P1 over P2 over
\* P3), keys of a single section kept; and that merge is the snapshot.
C1_MergeOrder ==
    /\ \A j \in DOMAIN outcomes :
           Done(j) => FirstRegisteredMerge(outcomes[j].result, outcomes[j].vals)
    /\ (outcomes # <<>> /\ Done(Len(outcomes)))
           => cachedConfig = outcomes[Len(outcomes)].result

C1_Witness ==
    /\ outcomes # <<>> /\ Done(1)
    /\ registered = << "P1", "P2", "P3" >>
    /\ cachedConfig[kApp] = Obj(kX :> Str(sV1))
    /\ cachedConfig[kK] = Num(1)
    /\ cachedConfig[kM] = Num(2)
    /\ cachedConfig[kN] = Num(3)

\* C2 as stated: for a key several providers supply, the snapshot holds the
\* value of the last registered of them.
C2_LastRegisteredWins ==
    \A j \in DOMAIN outcomes :
        Done(j) =>
            \A k \in KeysOf(outcomes[j].vals) :
                Cardinality(Suppliers(outcomes[j].vals, k)) >= 2
                    => outcomes[j].result[k]
                           = outcomes[j].vals[LastWith(outcomes[j].vals, k)][k]

\* C2 as amended: for a key several providers supply, the snapshot holds the
\* value of the first registered of them.
C2_FirstRegisteredWins ==
    \A j \in DOMAIN outcomes :
        Done(j) =>
            \A k \in KeysOf(outcomes[j].vals) :
                Cardinality(Suppliers(outcomes[j].vals, k)) >= 2
                    => /\ outcomes[j].result[k]
                              = outcomes[j].vals[FirstWith(outcomes[j].vals, k)][k]
                       /\ j = Len(outcomes) => cachedConfig[k] = outcomes[j].result[k]

C2_Witness ==
    /\ outcomes # <<>> /\ Done(1)
    /\ Suppliers(outcomes[1].vals, kK) = { "P1", "P2" }
    /\ outcomes[1].vals["P2"][kK] = Num(2)
    /\ cachedConfig[kK] = Num(1)
    /\ Suppliers(outcomes[1].vals, kApp) = { "P1", "P3" }

\* What each provider can have delivered in one complete set of fetches.
CompleteSets ==
    {vals \in [ProviderNames -> UNION {SectionsOf(p) : p \in ProviderNames}] :
        \A p \in ProviderNames : vals[p] \in SectionsOf(p)}

\* config is a merge of one section of every registered provider.
IsCompleteMerge(config) == \E vals \in CompleteSets : FirstRegisteredMerge(config, vals)

C3_SnapshotComplete == cachedConfig = EmptySection \/ IsCompleteMerge(cachedConfig)

\* A step that replaces the snapshot is one in which a subscription that
\* had received a section from every provider finished, and it writes that
\* subscription's merge.
C3_WrittenWhenAllIn ==
    cachedConfig' # cachedConfig =>
        /\ outcomes' # <<>>
        /\ LET o == outcomes'[Len(outcomes')]
           IN  /\ o.st = "done"
               /\ o.got = ProviderNames
               /\ \A p \in ProviderNames : o.vals[p] \in SectionsOf(p)
               /\ cachedConfig' = o.result

\* C3: in every reachable state the snapshot is the initial empty section or
\* a complete merge of one section from every registered provider, and it is
\* replaced only in a step where a subscription that has received all the
\* providers' sections finishes; a merge of a subset is never the snapshot.
C3_NoPartialMerge == [](C3_SnapshotComplete) /\ [][C3_WrittenWhenAllIn]_vars

\* A new cycle holds one provider's section and waits for the other while
\* the snapshot of the cycle before stands.
C3_Witness ==
    /\ cachedConfig # EmptySection
    /\ \E i \in DOMAIN subs : subs[i].got # {} /\ subs[i].got # ProviderNames
    /\ forced

\* A step in which a provider's fetch failed: subscriptions ended in error.
FailureStep == outcomes' # <<>> /\ outcomes'[1].st = "error" /\ subs' # subs

ProbePaths ==
    { kApp, kK, kM, kApp \o << "." >> \o kX, kApp \o << ":" >> \o kX,
      kK \o << "." >> \o kX }

\* C4: a step in which a provider's fetch fails ends every subscription that
\* waited on it with the error and no other, leaves the snapshot and the
\* bound-options cache as they were, emits nothing, leaves both flags false
\* when a load call's own subscription is among the failed, and getValue
\* answers as before; the load calls that start a cycle do not touch the
\* snapshot or the bound-options cache either.
C4_FailureStep ==
    /\ FailureStep =>
        /\ \A j \in DOMAIN outcomes' : outcomes'[j].st = "error"
        /\ Len(subs) = Len(subs') + Len(outcomes')
        /\ cachedConfig' = cachedConfig
        /\ optionsRecord' = optionsRecord
        /\ (\E j \in DOMAIN outcomes' : outcomes'[j].kind = "internal")
               => (~loading' /\ ~completed')
        /\ \A q \in ProbePaths : getValue(cachedConfig', q) = getValue(cachedConfig, q)
    /\ nLoads' # nLoads => (cachedConfig' = cachedConfig /\ optionsRecord' = optionsRecord)

C4_FailurePreserves == [][C4_FailureStep]_vars

\* A reload with a consuming caller has just failed over a loaded snapshot
\* and a bound options object.
C4_Witness ==
    /\ outcomes # <<>> /\ outcomes[1].st = "error"
    /\ \E j \in DOMAIN outcomes : outcomes[j].kind = "caller"
    /\ \E j \in DOMAIN outcomes : outcomes[j].kind = "internal"
    /\ cachedConfig # EmptySection
    /\ optionsRecord # NoOptions
    /\ ~loading /\ ~completed
    /\ getValue(cachedConfig, kApp \o << "." >> \o kX) = Str(sV1)

\* C5: a call load() made while the completed flag is set (a load has
\* completed and none has started or failed since) returns the snapshot at
\* once and changes nothing: no provider is called or subscribed to, no
\* event is emitted, snapshot, flags, fetch cache and bound-options cache
\* stay as they are.
C5_FastPathStep ==
    (completed /\ last'.op = "load") =>
        /\ ret' = Obj(cachedConfig)
        /\ UNCHANGED << loading, completed, cachedConfig, optionsRecord, fetchRequests,
                        events, connected, subs, invoked, injectedObjs, returned >>

C5_FastPath == [][C5_FastPathStep]_vars

C5_Witness ==
    /\ completed /\ last.op = "load"
    /\ cachedConfig # EmptySection
    /\ ret = Obj(cachedConfig)
    /\ optionsRecord # NoOptions

\* The fetches of provider p in flight.
InFlight(p) == Cardinality({c \in connected : c[2] = p})

EarlyOutcomes == {j \in DOMAIN outcomes : outcomes[j].early}

\* C6: while load was only ever called without reload and no fetch has
\* resolved, however many calls and consuming callers there are, every
\* provider's load() has been invoked once and one fetch of it is in flight
\* (none has ended, so these are all the fetches started); and the
\* subscriptions made in that window all finish in one step with one and the
\* same result, the merge of the one section each provider delivered.
C6_SharedFetch ==
    ~forced =>
        /\ \A p \in ProviderNames : invoked[p] = (IF nLoads >= 1 THEN 1 ELSE 0)
        /\ (~resolved /\ nLoads >= 1) => \A p \in ProviderNames : InFlight(p) = 1
        /\ \A i, j \in EarlyOutcomes :
               outcomes[i].st = outcomes[j].st /\ outcomes[i].result = outcomes[j].result
        /\ EarlyOutcomes # {} =>
               /\ \A i \in DOMAIN subs : ~subs[i].early
               /\ \A j \in EarlyOutcomes :
                      outcomes[j].st = "done" =>
                          /\ outcomes[j].got = ProviderNames
                          /\ FirstRegisteredMerge(outcomes[j].result, outcomes[j].vals)
                          /\ \A i \in EarlyOutcomes : outcomes[i].vals = outcomes[j].vals

\* Two load() calls and a caller that consumes, all before any fetch
\* resolved, have received the one merge.
C6_Witness ==
    /\ ~forced /\ nLoads = 2 /\ nCallerSubs = 1
    /\ Len(outcomes) = 3
    /\ \A j \in DOMAIN outcomes : outcomes[j].early /\ outcomes[j].st = "done"
    /\ \A p \in ProviderNames : invoked[p] = 1
    /\ cachedConfig # EmptySection

\* C7: as long as load was never called with reload, at most one fetch per
\* provider is in flight.
C7_OneInFlight == ~forced => \A p \in ProviderNames : InFlight(p) <= 1

\* After a failed cycle, a second load() and a consuming caller share the
\* one fetch per provider.
C7_Witness ==
    /\ ~forced /\ resolved /\ ~completed
    /\ nLoads = 2 /\ nCallerSubs = 1 /\ Len(subs) = 2
    /\ cachedConfig = EmptySection
    /\ \A p \in ProviderNames : InFlight(p) = 1

\* C8 as stated: since the latest 'loading', at most one 'loaded' has been
\* emitted (load never called with reload: one cycle per 'loading').
C8_AtMostOneLoaded ==
    ~forced => events \in { <<>>, << "loading" >>, << "loading", "loaded" >> }

\* The section the class's normalized name finds in the snapshot.
SectionOf(optionsClass) == getValue(cachedConfig, getNormalizedKey(optionsClass))

\* Every field of the bound object that the section has is what coercing
\* against the section gives.
CoercedFrom(bound, section) ==
    \A key \in DOMAIN bound \cap DOMAIN section :
        /\ bound[key] = MapOptionValue(bound[key], section[key])
        /\ bound[key] = section[key]

\* C9: every entry of the bound-options cache was bound against the snapshot
\* that is current (a merge that replaces the snapshot empties the cache in
\* the same step), and the object a bind returns when the snapshot has the
\* section carries the values of the current snapshot, also after a reload
\* changed them.
C9_CacheConsistent ==
    /\ \A k \in DOMAIN optionsRecord : optionsRecord[k].snap = cachedConfig
    /\ (last.op = "map" /\ TypeOf(SectionOf(last.cls)) = "object"
            /\ ~IsNullish(SectionOf(last.cls))) =>
           /\ ret.t = "object"
           /\ CoercedFrom(ret.v, SectionOf(last.cls).v)
           /\ getNormalizedKey(last.cls) \in DOMAIN optionsRecord

\* Bound against the section with x and z, reloaded to the section with
\* the other x and no z, bound again: x is the new snapshot's (z, which the
\* new section lacks, is what the earlier binding left in the instance).
C9_Witness ==
    /\ last.op = "map" /\ forced /\ completed
    /\ kApp \in DOMAIN optionsRecord
    /\ cachedConfig[kApp].v = (kX :> Str(sV1))
    /\ ret.v[kX] = Str(sV1)
    /\ ret.v[kZ] = Str(sV2)

\* The walk as the claim states it: null as soon as the current value is not
\* a section or lacks the segment, else the raw value at the last segment.
RECURSIVE NullOnFirstMiss(_, _, _)
NullOnFirstMiss(keyArray, i, cur) ==
    IF i > Len(keyArray) THEN cur
    ELSE IF cur.t # "object" THEN Null
    ELSE IF ~HasOwn(cur.v, keyArray[i]) THEN Null
    ELSE NullOnFirstMiss(keyArray, i + 1, cur.v[keyArray[i]])

\* C10 as stated: getValue(path) is null as soon as a segment is missing or
\* the current value is a scalar of any kind (0, false, '' and null
\* included), and the raw terminal value otherwise.
C10_NullOnFirstMiss ==
    last.op = "getValue" => ret = NullOnFirstMiss(Split(path), 1, Obj(cachedConfig))

\* The instance map is given for the class, and the section it looks up.
Supplied(optionsClass) == InjectorGet(optionsClass)

\* A step that is a call of map which finds a section for the class.
BindsSection ==
    /\ last'.op = "map"
    /\ ~IsNullish(SectionOf(last'.cls))
    /\ SectionOf(last'.cls).t = "object"

\* The table of C11, row by row, first match first.
RECURSIVE TableRule(_, _)
TableRule(d, s) ==
    IF d = s THEN d
    ELSE IF s.t \in {"null", "undefined"} THEN Null
    ELSE IF d.t \in {"null", "undefined"} THEN s
    ELSE IF d.t = "string" THEN
        (IF s.t = "string" THEN s ELSE Str(JsonStringify(s)))
    ELSE IF d.t = "boolean" THEN
        Bool(\/ s = Bool(TRUE)
             \/ s = Num(1)
             \/ s.t = "string" /\ ToLowerCase(s.v) \in
                    { << "1" >>, << "t", "r", "u", "e" >>, << "o", "n" >> })
    ELSE IF d.t = "number" THEN
        (IF s.t = "number" THEN s
         ELSE IF s.t = "boolean" THEN Num(IF s.v THEN 1 ELSE 0)
         ELSE IF s.t = "string" /\ AllDigits(s.v) THEN Num(DigitsValue(s.v, 1, 0))
         ELSE Num(0))
    ELSE IF d.t = "object" /\ s.t = "object" THEN
        Obj([key \in DOMAIN d.v |->
                IF key \in DOMAIN s.v THEN TableRule(d.v[key], s.v[key]) ELSE d.v[key]])
    ELSE d

\* C11: a call of map that finds a section sets every field present in both
\* the supplied instance and the section to what the table gives for the
\* field's value before the call and the section's value.
C11_TableStep ==
    BindsSection =>
        /\ ret'.t = "object"
        /\ \A key \in DOMAIN Supplied(last'.cls) \cap DOMAIN SectionOf(last'.cls).v :
               ret'.v[key] = TableRule(Supplied(last'.cls)[key], SectionOf(last'.cls).v[key])

C11_CoercionTable == [][C11_TableStep]_vars

\* The first example of the table: the string default against true.
C11_Witness ==
    /\ last = Call("map", cAppOptions)
    /\ SectionOf(cAppOptions).t = "object"
    /\ kX \in DOMAIN SectionOf(cAppOptions).v
    /\ SectionOf(cAppOptions).v[kX] = Bool(TRUE)
    /\ ret.v[kX] = Str(<< "t", "r", "u", "e" >>)

\* The pipeline ids the live subscriptions read.
LivePipelines == {subs[i].pipes[p] : i \in DOMAIN subs, p \in ProviderNames}

\* A call load(true) made while a subscription of an earlier cycle waits.
ReloadInFlight == last'.op = "reload" /\ subs # <<>>

\* C12: a load(true) issued while an earlier cycle is in flight leaves the
\* earlier subscriptions and their fetches as they are and adds a
\* subscription of its own on fresh pipelines, for each of which the
\* provider's load() is invoked and a fetch started; and whenever a
\* subscription finishes with a merge, whichever cycle it belongs to, that
\* merge is the snapshot afterwards (the last to complete wins).
C12_ReloadStep ==
    /\ ReloadInFlight =>
        /\ Len(subs') = Len(subs) + 1
        /\ SubSeq(subs', 1, Len(subs)) = subs
        /\ connected \subseteq connected'
        /\ \A p \in ProviderNames :
               LET id == subs'[Len(subs')].pipes[p]
               IN  /\ id \notin LivePipelines
                   /\ << id, p >> \in connected' \ connected
                   /\ invoked'[p] = invoked[p] + 1
        /\ cachedConfig' = cachedConfig
    /\ (outcomes' # <<>> /\ outcomes'[Len(outcomes')].st = "done" /\ subs' # subs) =>
           cachedConfig' = outcomes'[Len(outcomes')].result

C12_IndependentReload == [][C12_ReloadStep]_vars

\* load(), then load(true) once P1 had delivered to the first cycle; the
\* reload's cycle completed first with P1's other section (a component
\* bound it), the first cycle completed last and its merge is the snapshot.
C12_Witness ==
    /\ forced /\ nLoads = 2 /\ nCallerSubs = 0
    /\ events = << "loading", "loaded", "loaded" >>
    /\ Len(outcomes) = 1 /\ outcomes[1].st = "done" /\ outcomes[1].early
    /\ subs = <<>>
    /\ cachedConfig = outcomes[1].result
    /\ cachedConfig[kApp].v = (kX :> Str(sV1))
    /\ injectedObjs[cAppOptions][kZ] = Str(sV2)

\* The step starts a provider fetch.
StartsFetch == connected' \ connected # {}

\* A load cycle has failed and none has started since.
CycleFailed == ~loading /\ ~completed /\ nLoads >= 1

\* C13 as stated: after a failed cycle, a provider fetch starts only in a
\* call load(true).
C13_RetryStep == (CycleFailed /\ StartsFetch) => last'.op = "reload"

C13_RetryOnlyByReload == [][C13_RetryStep]_vars

\* C13, amended: a provider fetch starts only in a call of load or in a
\* caller's subscription to what load returned, never in the step of a
\* delivery, a failure or a bind (no automatic retry); a plain load() after
\* a failed cycle does start the fetches again, on the cached pipelines, and
\* only load(true) invokes a provider's load() a second time.
C13_FetchStep ==
    /\ StartsFetch =>
           \/ last'.op \in {"load", "reload"} /\ nLoads' = nLoads + 1
           \/ nCallerSubs' = nCallerSubs + 1
    /\ (CycleFailed /\ last'.op = "load") =>
           \A p \in ProviderNames : << fetchRequests[p], p >> \in connected'
    /\ \A p \in ProviderNames :
           (invoked'[p] # invoked[p]) =>
               /\ nLoads' = nLoads + 1
               /\ invoked[p] >= 1 => last'.op = "reload"

C13_NoAutomaticRetry == [][C13_FetchStep]_vars

\* load() fails; load() again: every provider is fetched once more, no
\* load(true) was ever called and no provider's load() invoked twice.
C13_Witness ==
    /\ last.op = "load" /\ ret = Undefined
    /\ ~forced /\ resolved /\ cachedConfig = EmptySection
    /\ nLoads = 2 /\ nCallerSubs = 0 /\ Len(subs) = 1
    /\ \A p \in ProviderNames : InFlight(p) = 1 /\ invoked[p] = 1

\* The load calls' own subscriptions that the step finished with a merge.
IsLoadedOutcome(o) == o.kind = "internal" /\ o.st = "done"

\* C14: a call of load made while no load is in progress notifies 'loading'
\* with the loading flag set and completed reset, before the call has
\* invoked or subscribed to any provider; and every 'loaded' is notified
\* with the merge of the subscription that finished as the snapshot, the
\* bound-options cache empty, completed set and loading reset.
C14_EmissionStep ==
    /\ (last'.op \in {"load", "reload"} /\ nLoads' = nLoads + 1 /\ ~loading) =>
        /\ Len(views') = 1
        /\ views'[1].status = "loading"
        /\ views'[1].loading /\ ~views'[1].completed
        /\ views'[1].invoked = invoked
        /\ views'[1].connected \cap (connected' \ connected) = {}
        /\ loading' /\ events' = << "loading" >>
    /\ (subs' # subs /\ outcomes' # <<>>) =>
        LET loaded == SelectSeq(outcomes', IsLoadedOutcome)
        IN  /\ Len(views') = Len(loaded)
            /\ \A j \in DOMAIN loaded :
                   /\ views'[j].status = "loaded"
                   /\ views'[j].cachedConfig = loaded[j].result
                   /\ views'[j].optionsRecord = NoOptions
                   /\ views'[j].completed /\ ~views'[j].loading

C14_EmissionOrder == [][C14_EmissionStep]_vars

\* A load committed P1's section with z and a component bound it; the
\* reload now commits the other section: the subscriber of 'loaded' reads
\* the new snapshot, an empty cache and the flags set.
C14_Witness ==
    /\ nLoads = 2 /\ forced
    /\ Len(views) = 1 /\ views[1].status = "loaded"
    /\ views[1].cachedConfig[kApp].v = (kX :> Str(sV1))
    /\ views[1].optionsRecord = NoOptions
    /\ views[1].completed /\ ~views[1].loading
    /\ injectedObjs[cAppOptions][kZ] = Str(sV2)

\* after has the fields of before and no other, and every field the section
\* lacks as it was; where the binder recursed (an object field against an
\* object of the section) the same holds one level down.
RECURSIVE FrameKept(_, _, _)
FrameKept(before, after, section) ==
    /\ DOMAIN after = DOMAIN before
    /\ \A key \in DOMAIN before :
        IF key \notin DOMAIN section THEN after[key] = before[key]
        ELSE (before[key].t = "object" /\ section[key].t = "object") =>
                 /\ after[key].t = "object"
                 /\ FrameKept(before[key].v, after[key].v, section[key].v)

\* C15: a call of map that finds a section returns the supplied object with
\* the same fields, none added from the section, and every field whose key
\* the section lacks unchanged, at every level the binder recurses into.
C15_FrameStep ==
    BindsSection =>
        /\ ret'.t = "object"
        /\ FrameKept(Supplied(last'.cls), ret'.v, SectionOf(last'.cls).v)

C15_BindFrame == [][C15_FrameStep]_vars

\* {x: {y: false, w: 2}, z: 'd'} bound against {x: {y: 'On', n: 3}, n: 9}.
C15_Witness ==
    /\ last = Call("map", cAppOptions)
    /\ SectionOf(cAppOptions).t = "object"
    /\ kX \in DOMAIN SectionOf(cAppOptions).v
    /\ SectionOf(cAppOptions).v[kX] = Obj((kY :> Str(sOn)) @@ (kN :> Num(3)))
    /\ ret.v = (kX :> Obj((kY :> Bool(TRUE)) @@ (kW :> Num(2)))) @@ (kZ :> Str(sD))

\* A step that is a call of map for a class whose normalized name getValue
\* resolves to null or to a value that is not an object.
BindsNoSection == last'.op = "map" /\ SectionOf(last'.cls).t # "object"

\* C16: a call of map whose section name resolves to null or to something
\* that is not an object returns the supplied object with every field as it
\* was and leaves no entry for the name in the bound-options cache, adding
\* none for any other name.
C16_NoSectionStep ==
    BindsNoSection =>
        /\ ret' = Obj(Supplied(last'.cls))
        /\ injectedObjs' = injectedObjs
        /\ getNormalizedKey(last'.cls) \notin DOMAIN optionsRecord'
        /\ \A k \in DOMAIN optionsRecord' :
               k \in DOMAIN optionsRecord /\ optionsRecord'[k] = optionsRecord[k]

C16_DefaultsWhenNoSection == [][C16_NoSectionStep]_vars

\* AppOptions bound while the snapshot's app entry is the string 'abc'.
C16_Witness ==
    /\ last = Call("map", cAppOptions)
    /\ kApp \in DOMAIN cachedConfig /\ cachedConfig[kApp] = Str(sAbc)
    /\ ret = Obj(injectedObjs[cAppOptions])
    /\ ret.v[kX] = Num(5)
    /\ optionsRecord = NoOptions

\* The cache holds, under the class's normalized name, the very object map
\* is supplied with: the injector's one instance of the class.
CachedIsSupplied(optionsClass) ==
    /\ getNormalizedKey(optionsClass) \in DOMAIN optionsRecord
    /\ optionsRecord[getNormalizedKey(optionsClass)].cls = optionsClass
    /\ optionsClass \in InjectedClasses

\* C17: a call of map that finds the supplied instance itself in the cache
\* returns it and changes nothing; one that finds another object there
\* replaces the entry by the supplied instance, coerced against the current
\* snapshot; so after a call the entry of the name, if there is one, is the
\* object that call returned.
C17_CacheStep ==
    (last'.op = "map" /\ getNormalizedKey(last'.cls) \in DOMAIN optionsRecord) =>
        IF CachedIsSupplied(last'.cls)
        THEN /\ ret' = Obj(Supplied(last'.cls))
             /\ UNCHANGED << optionsRecord, injectedObjs >>
        ELSE /\ getNormalizedKey(last'.cls) \in DOMAIN optionsRecord'
             /\ optionsRecord'[getNormalizedKey(last'.cls)].cls = last'.cls
             /\ optionsRecord'[getNormalizedKey(last'.cls)].snap = cachedConfig
             /\ \A key \in DOMAIN Supplied(last'.cls) \cap DOMAIN SectionOf(last'.cls).v :
                    ret'.v[key] =
                        TableRule(Supplied(last'.cls)[key], SectionOf(last'.cls).v[key])

C17_EntryIsLastBound ==
    (last.op = "map" /\ getNormalizedKey(last.cls) \in DOMAIN optionsRecord) =>
        optionsRecord[getNormalizedKey(last.cls)].cls = last.cls

C17_CacheIdentity == [](C17_EntryIsLastBound) /\ [][C17_CacheStep]_vars

\* AppOptions was bound (its x became 'TRUE'), then App, a new instance
\* under the same name: the entry is now App's, coerced.
C17_Witness ==
    /\ last = Call("map", cApp)
    /\ injectedObjs[cAppOptions][kX] = Str(sTRUE)
    /\ kApp \in DOMAIN optionsRecord /\ optionsRecord[kApp].cls = cApp
    /\ ret.v[kX] = Str(sTRUE)

\* C18: loading and completed are never both true; completed becomes true
\* only in a step that ends a load call's own subscription with the merged
\* value and leaves loading false, and loading becomes true only in a step
\* that is a load call and leaves completed false.
C18_FlagsExclusive == ~(loading /\ completed)

C18_FlagStep ==
    /\ (completed' /\ ~completed) =>
           /\ ~loading'
           /\ \E j \in DOMAIN outcomes' :
                  outcomes'[j].kind = "internal" /\ outcomes'[j].st = "done"
    /\ (loading' /\ ~loading) => (~completed' /\ nLoads' = nLoads + 1)

C18_FlagsNeverBoth == [](C18_FlagsExclusive) /\ [][C18_FlagStep]_vars

\* A forced reload is running after a load that completed: loading was
\* raised while completed was true, and completed went down with it.
C18_Witness ==
    /\ loading /\ ~completed
    /\ cachedConfig # EmptySection
    /\ nCallerSubs = 0
    /\ forced

\* The load calls whose own subscription has ended, where only load calls
\* subscribe.
Settled == nLoads - Len(subs)

\* C19: where every issued fetch settles, a service that is loading stops
\* loading, and every load call that started a cycle sees its subscription
\* end: once n calls were made, n subscriptions end; a subscription that is
\* live always waits on fetches that are in flight.
C19_Waiting ==
    /\ loading => \E i \in DOMAIN subs : subs[i].kind = "internal"
    /\ \A i \in DOMAIN subs : \A p \in ProviderNames :
           p \notin subs[i].got => << subs[i].pipes[p], p >> \in connected

C19_LoadingEnds ==
    /\ [](C19_Waiting)
    /\ loading ~> ~loading
    /\ \A n \in 1..MaxCycles : (nLoads >= n) ~> (Settled >= n)

\* A load and a forced reload were made, and both have ended.
C19_Witness ==
    /\ nLoads = MaxCycles /\ forced
    /\ subs = <<>> /\ connected = {}
    /\ ~loading /\ completed

\* A step in which a caller consumes what load returned: the caller
\* subscribes, or the step ends subscriptions of callers only.
ConsumingStep ==
    \/ nCallerSubs' = nCallerSubs + 1
    \/ /\ outcomes' # <<>>
       /\ \A j \in DOMAIN outcomes' : outcomes'[j].kind = "caller"

\* C20: consuming the observable load returned, at any time, changes neither
\* the cached snapshot, nor the flags, nor what has been emitted.
C20_ConsumingStep ==
    ConsumingStep =>
        /\ cachedConfig' = cachedConfig
        /\ completed' = completed /\ loading' = loading
        /\ events' = events

C20_ConsumingChangesNothing == [][C20_ConsumingStep]_vars

====
